---------------------------- MODULE Spec2Model ----------------------------
(***************************************************************************)
(* A model of taxcalc/records.py: the Records class of tax-filing units.   *)
(* Floating-point columns are modelled by exact rationals <<n, d>> with    *)
(* d > 0 in lowest terms; the not-a-number value of pandas/numpy is NaN.   *)
(* Column arrays are sequences indexed 1..dim (numpy position k is k+1).   *)
(***************************************************************************)
EXTENDS Integers, Sequences, FiniteSets, TLC

(***************************************************************************)
(* Exact arithmetic standing for float64 arithmetic.                       *)
(***************************************************************************)
NaN == <<0, 0>>

AbsInt(a) == IF a < 0 THEN -a ELSE a

RECURSIVE GCD(_, _)
GCD(a, b) == IF b = 0 THEN a ELSE GCD(b, a % b)

Norm(n, d) ==
    LET g == GCD(AbsInt(n), AbsInt(d))
        s == IF d < 0 THEN -1 ELSE 1
    IN  IF d = 0 THEN NaN ELSE <<s * (n \div g), s * (d \div g)>>

Rat(n) == <<n, 1>>

Frac(n, d) == Norm(n, d)

IsNaN(x) == x[2] = 0

\* x * y, dividing out common factors first so that products stay small
Mul(x, y) ==
    IF IsNaN(x) \/ IsNaN(y) THEN NaN
    ELSE LET g1 == GCD(AbsInt(x[1]), y[2])
             g2 == GCD(AbsInt(y[1]), x[2])
         IN  Norm((x[1] \div g1) * (y[1] \div g2), (x[2] \div g2) * (y[2] \div g1))

\* x / y; a zero divisor gives NaN (no table of the model divides by zero)
Div(x, y) ==
    IF IsNaN(x) \/ IsNaN(y) \/ y[1] = 0 THEN NaN
    ELSE Mul(x, Norm(y[2], y[1]))

Add(x, y) ==
    IF IsNaN(x) \/ IsNaN(y) THEN NaN
    ELSE LET g == GCD(x[2], y[2])
             l == (x[2] \div g) * y[2]
         IN  Norm(x[1] * (l \div x[2]) + y[1] * (l \div y[2]), l)

Neg(x) == IF IsNaN(x) THEN NaN ELSE <<-x[1], x[2]>>

Sub(x, y) == Add(x, Neg(y))

AbsRat(x) == IF IsNaN(x) THEN NaN ELSE <<AbsInt(x[1]), x[2]>>

\* x <= y as IEEE compares: FALSE when either side is NaN
Le(x, y) ==
    /\ ~IsNaN(x)
    /\ ~IsNaN(y)
    /\ LET g == GCD(x[2], y[2])
       IN  x[1] * (y[2] \div g) <= y[1] * (x[2] \div g)

\* x >= 0 as IEEE compares: FALSE for NaN
GeZero(x) == ~IsNaN(x) /\ x[1] >= 0

MaxRat(x, y) == IF IsNaN(x) \/ IsNaN(y) THEN NaN ELSE IF Le(x, y) THEN y ELSE x

Zero == Rat(0)

\* np.allclose(a, b, rtol=0.0, atol=tol) on two arrays of equal length
AllClose(a, b, tol) ==
    \A i \in 1..Len(a) : Le(AbsRat(Sub(a[i], b[i])), tol)

\* elementwise operations on column arrays
VecAdd(a, b) == [i \in 1..Len(a) |-> Add(a[i], b[i])]
VecSub(a, b) == [i \in 1..Len(a) |-> Sub(a[i], b[i])]
VecScale(a, f) == [i \in 1..Len(a) |-> Mul(a[i], f)]
VecMax0(a) == [i \in 1..Len(a) |-> MaxRat(Zero, a[i])]
Filled(n, v) == [i \in 1..n |-> v]

PUFCSV_YEAR == 2009

(***************************************************************************)
(* Schema registry (class attributes of Records).                          *)
(***************************************************************************)
USABLE_READ_VARS == {
    "DSI", "EIC", "FLPDYR",
    "f2441", "f6251", "n24", "XTOT",
    "e00200", "e00300", "e00400", "e00600", "e00650", "e00700", "e00800",
    "e00200p", "e00200s",
    "e00900", "e01100", "e01200", "e01400", "e01500", "e01700",
    "e00900p", "e00900s",
    "e02000", "e02100", "e02300", "e02400", "e03150", "e03210",
    "e02100p", "e02100s",
    "e03220", "e03230", "e03270", "e03240", "e03290",
    "e03400", "e03500",
    "e07240", "e07260", "e07300",
    "e07400", "e07600", "p08000",
    "e09700", "e09800", "e09900",
    "e11200",
    "e17500", "e18400", "e18500",
    "e19200", "e19800", "e20100",
    "e20400", "e20500", "p22250",
    "p23250", "e24515", "e24518",
    "p25470",
    "e26270",
    "e27200", "e32800", "e03300",
    "e58990",
    "e62900",
    "p87521", "e87530",
    "MARS", "MIDR", "RECID", "filer", "cmbtp",
    "age_head", "age_spouse", "blind_head", "blind_spouse",
    "nu13", "elderly_dependent",
    "s006", "nu05"}

MUST_READ_VARS == {"RECID", "MARS"}

INTEGER_READ_VARS == {
    "DSI", "EIC", "FLPDYR",
    "f2441", "f6251",
    "n24", "XTOT",
    "MARS", "MIDR", "RECID", "filer",
    "age_head", "age_spouse", "blind_head", "blind_spouse",
    "nu13", "elderly_dependent"}

CALCULATED_VARS == {
    "_exact",
    "c07200",
    "c00100", "pre_c04600", "c04600",
    "c04470", "c21060", "c21040", "c17000",
    "c18300", "c20800", "c02900", "c02900_in_ei", "c23650",
    "c01000", "c02500", "c19700", "invinc_ec_base", "invinc_agi_ec",
    "_sey", "_earned", "_earned_p", "_earned_s",
    "ymod", "ymod1",
    "c04800", "c19200", "c20500",
    "_taxbc", "_standard", "dwks10", "dwks13", "dwks14", "dwks19",
    "c05700",
    "c05800",
    "c07180",
    "c07230", "prectc", "c07220", "c59660",
    "c09200", "c07100", "_eitc",
    "_payrolltax", "ptax_was", "setax", "c03260", "ptax_amc", "ptax_oasdi",
    "_sep", "_num",
    "c05200",
    "c62100",
    "c09600",
    "ID_Casualty_frt_in_pufcsv_year",
    "c11070",
    "c10960", "c87668",
    "NIIT",
    "_iitax", "_refund", "ctc_new", "lumpsum_tax",
    "_expanded_income", "c07300", "c07400",
    "c07600", "c07240", "c07260", "c08000",
    "_surtax", "_combined", "personal_credit", "fstax", "care_deduction",
    "dep_credit"}

INTEGER_CALCULATED_VARS == {"_num", "_sep", "_exact"}

CHANGING_CALCULATED_VARS ==
    (CALCULATED_VARS \ INTEGER_CALCULATED_VARS)
        \ {"ID_Casualty_frt_in_pufcsv_year"}


(***************************************************************************)
(* Bounds of the model.                                                    *)
(***************************************************************************)
\* largest number of records in a sample
MaxDim == 2
\* last year of the longer factor table; increment_year is tried up to it
MaxYear == 2011
\* largest number of public-method calls made on one constructed object
MaxOps == 3

(***************************************************************************)
(* Constructor inputs.  A data table is [columns, index, col]: its column  *)
(* names, its row labels and one array per column.                         *)
(***************************************************************************)
Half == Frac(1, 2000)

\* rows the data tables are built from: filing status, the three
\* split-earnings families, the dividend pair, e02000 and s006
RowOK1 == [MARS |-> 1,
           e00200 |-> Rat(1000), e00200p |-> Rat(500), e00200s |-> Rat(500),
           e00900 |-> Rat(6), e00900p |-> Rat(10), e00900s |-> Rat(-4),
           e02100 |-> Rat(3), e02100p |-> Rat(1), e02100s |-> Rat(2),
           e00600 |-> Rat(5), e00650 |-> Rat(3),
           e02000 |-> Rat(-4), s006 |-> Rat(50)]

\* within the 0.001 tolerance on wages and on dividends, not exact
RowOK2 == [MARS |-> 3,
           e00200 |-> Rat(1000), e00200p |-> Rat(1000), e00200s |-> Half,
           e00900 |-> Rat(-4), e00900p |-> Rat(-4), e00900s |-> Rat(0),
           e02100 |-> Rat(0), e02100p |-> Rat(0), e02100s |-> Rat(0),
           e00600 |-> Rat(5), e00650 |-> Add(Rat(5), Half),
           e02000 |-> Rat(7), s006 |-> Rat(60)]

\* wages and e02100 both inconsistent
RowBadWage == [RowOK1 EXCEPT !.MARS = 2, !.e00200p = Rat(1000),
                             !.e00200s = Rat(1), !.e02100s = Rat(1)]

\* e00900 and e02100 both inconsistent
RowBadSchC == [RowOK1 EXCEPT !.e00900s = Rat(4), !.e02100s = Rat(1)]

\* e02100 inconsistent and qualified dividends above ordinary dividends
RowBadSchF == [RowOK1 EXCEPT !.e02100s = Rat(1), !.e00650 = Rat(7)]

\* qualified dividends above ordinary dividends by more than the tolerance
RowBadDivs == [RowOK1 EXCEPT !.e00650 = Rat(7)]

RowKinds == {RowOK1, RowOK2, RowBadWage, RowBadSchC, RowBadSchF, RowBadDivs}

\* value of source column name in row i built from row kind k
SourceValue(k, name, i) ==
    IF name = "RECID" THEN Rat(i)
    ELSE IF name = "XTOT" THEN Frac(5, 2)
    ELSE IF name \in DOMAIN k THEN (IF name = "MARS" THEN Rat(k[name]) ELSE k[name])
    ELSE IF name \in INTEGER_READ_VARS THEN Rat(1)
    ELSE Rat(12)

\* the table with the given column names and row labels whose rows are kinds
DataFrame(columns, kinds, shift) ==
    [columns |-> columns,
     index |-> [i \in 1..Len(kinds) |-> i - 1 + shift],
     col |-> [name \in columns |->
                 [i \in 1..Len(kinds) |-> SourceValue(kinds[i], name, i)]]]

\* the column-name sets of the data tables of Spec
ColumnChoices == {USABLE_READ_VARS, USABLE_READ_VARS \ {"MARS"}}

\* the 21 columns of the blowup-factor table
BF_COLUMNS == <<"AGDPN", "ATXPY", "AWAGE", "ASCHCI", "ASCHCL", "ASCHF",
                "AINTS", "ADIVS", "ASCHEI", "ASCHEL", "ACGNS", "ABOOK",
                "ARETS", "APOPN", "ACPIU", "APOPDEP", "ASOCSEC", "ACPIM",
                "AUCOMP", "APOPSNR", "AIPD">>

BFColumnSet == {BF_COLUMNS[i] : i \in 1..Len(BF_COLUMNS)}

ColumnNumber(c) == CHOOSE i \in 1..Len(BF_COLUMNS) : BF_COLUMNS[i] = c

\* a raw factor table (aggregates and populations) over the years first..last
RawFactors(first, last) ==
    [columns |-> BFColumnSet,
     index |-> first..last,
     val |-> [y \in first..last |->
                [c \in BFColumnSet |->
                    IF c = "APOPN" THEN Rat(2 + ((y - first) % 2))
                    ELSE IF c = "APOPSNR" THEN Rat(1 + ((y - first) % 3))
                    ELSE Rat(1 + ((ColumnNumber(c) * (y - first + 1) + (y - first) \div 2) % 4))]]]

\* the argument None given for blowup_factors or weights
NoTable == [none |-> TRUE]

\* the rows of a factor table other than the row of year y
WithoutRow(table, y) ==
    [columns |-> table.columns,
     index |-> table.index \ {y},
     val |-> [z \in table.index \ {y} |-> table.val[z]]]

\* blowup_factors arguments: None, a table from 2008 on, a table from 2009
\* on, and a table from 2008 on that has no row for 2010
BlowupChoices == {NoTable, [first |-> 2008, last |-> MaxYear],
                  [first |-> PUFCSV_YEAR, last |-> 2010],
                  [first |-> 2008, last |-> MaxYear, gap |-> 2010]}

\* the weights table is [columns, rows]; column names are WT<year>
WTColName(year) == "WT" \o ToString(year)

RawWeights(nrows) ==
    [columns |-> {WTColName(2009), WTColName(2010)},
     rows |-> [r \in 1..nrows |->
                 [c \in {WTColName(2009), WTColName(2010)} |->
                     IF c = WTColName(2009) THEN Rat(100 * r + 7) ELSE Rat(300 * r + 11)]]]

\* <<weights, shift>>: weights is 0 for None, 1 for a table with as many rows
\* as the data and 2 for a table with one row more; shift is added to the row
\* labels 0..dim-1 of the data (a shift of 2 leaves the last label outside
\* the longer table)
WeightChoices == {<<0, 0>>, <<1, 0>>, <<2, 0>>, <<2, 1>>, <<2, 2>>}

\* start_year arguments: two integers and a value that is not an integer
StartYearChoices == {[int |-> TRUE, value |-> 2008],
                     [int |-> TRUE, value |-> PUFCSV_YEAR],
                     [int |-> FALSE, value |-> PUFCSV_YEAR]}

\* the sequences over S of length 1..n
RowSeqs(S, n) == UNION {[1..k -> S] : k \in 1..n}


(***************************************************************************)
(* _read_data: classify the source columns and build the column arrays.    *)
(***************************************************************************)
\* astype(np.int64): truncation toward zero
AsInt64(x) ==
    IF x[1] >= 0 THEN Rat(x[1] \div x[2]) ELSE Rat(-((-x[1]) \div x[2]))

\* the casualty threshold written by _read_data: 0.10 as PUFCSV_YEAR < ryear
ID_Casualty_frt == Frac(10, 100)

ZeroedVarsWithRead(READ) == CALCULATED_VARS \cup USABLE_READ_VARS

\* ZEROED_VARS of _read_data, given READ_VARS
ZeroedVars(READ) == CALCULATED_VARS \cup (USABLE_READ_VARS \ READ)

_read_data(data, exact_calcs) ==
    LET READ == {v \in data.columns : v \in USABLE_READ_VARS}
        IGNORED == {v \in data.columns : v \notin USABLE_READ_VARS}
        ZEROED == ZeroedVars(READ)
        n == Len(data.index)
        read == [v \in READ |->
                   IF v \in INTEGER_READ_VARS
                   THEN [i \in 1..n |-> AsInt64(data.col[v][i])]
                   ELSE data.col[v]]
        loaded == [v \in READ \cup ZEROED |->
                     IF v \in ZEROED THEN Filled(n, Zero) ELSE read[v]]
        derived == [loaded EXCEPT
                     !["_num"] = [i \in 1..n |->
                                    IF loaded["MARS"][i] = Rat(2) THEN Rat(2) ELSE Rat(1)],
                     !["_sep"] = [i \in 1..n |->
                                    IF loaded["MARS"][i] = Rat(3) \/ loaded["MARS"][i] = Rat(6)
                                    THEN Rat(2) ELSE Rat(1)],
                     !["_exact"] = Filled(n, IF exact_calcs = TRUE THEN Rat(1) ELSE Rat(0)),
                     !["ID_Casualty_frt_in_pufcsv_year"] = Filled(n, ID_Casualty_frt)]
    IN  IF MUST_READ_VARS \subseteq READ
        THEN [raised |-> "", dim |-> n, index |-> data.index, READ_VARS |-> READ,
              IGNORED_VARS |-> IGNORED, ZEROED_VARS |-> ZEROED, cols |-> derived]
        ELSE [raised |-> "MUST_READ_VARS", dim |-> n, index |-> data.index,
              READ_VARS |-> READ, IGNORED_VARS |-> IGNORED, ZEROED_VARS |-> {},
              cols |-> read]

(***************************************************************************)
(* The consistency checks of __init__.                                     *)
(***************************************************************************)
\* atol of every np.allclose call of __init__
ATOL == Frac(1, 1000)

SplitOK(c, fam) == AllClose(c[fam], VecAdd(c[fam \o "p"], c[fam \o "s"]), ATOL)

SplitEarningsErrorReversed(c) ==
    IF ~SplitOK(c, "e02100") THEN "e02100"
    ELSE IF ~SplitOK(c, "e00900") THEN "e00900"
    ELSE IF ~SplitOK(c, "e00200") THEN "e00200"
    ELSE ""

\* the family named by the first split-earnings check that fails, or ""
SplitEarningsError(c) ==
    IF ~SplitOK(c, "e00200") THEN "e00200"
    ELSE IF ~SplitOK(c, "e00900") THEN "e00900"
    ELSE IF ~SplitOK(c, "e02100") THEN "e02100"
    ELSE ""

DividendsUnchecked(c) == TRUE

\* the dividends check: e00600 close to e00650 + max(0, e00600 - e00650)
DividendsOK(c) ==
    LET other_dividends == VecMax0(VecSub(c["e00600"], c["e00650"]))
    IN  AllClose(c["e00600"], VecAdd(c["e00650"], other_dividends), ATOL)

(***************************************************************************)
(* _read_blowup and _read_weights.                                         *)
(***************************************************************************)
\* pd.DataFrame({'nothing': []}) as a factor table and as a weights table
EmptyBF == [columns |-> {"nothing"}, index |-> {}, val |-> << >>]
EmptyWT == [columns |-> {"nothing"}, rows |-> << >>]

\* the columns _read_blowup divides by APOPN
PerCapita == {"AGDPN", "ATXPY", "AWAGE", "ASCHCI", "ASCHCL", "ASCHF",
              "AINTS", "ADIVS", "ASCHEI", "ASCHEL", "ACGNS", "ABOOK"}

\* the row before row y of a table indexed by the years in index
PreviousRow(index, y) ==
    CHOOSE z \in index : z < y /\ \A w \in index : w < y => w <= z

_read_blowup(blowup_factors) ==
    IF blowup_factors = NoTable THEN EmptyBF
    ELSE LET raw == blowup_factors.val
             first == CHOOSE y \in blowup_factors.index :
                          \A z \in blowup_factors.index : y <= z
             scaled == [y \in blowup_factors.index |->
                          [c \in blowup_factors.columns |->
                             IF c \in PerCapita THEN Div(raw[y][c], raw[y]["APOPN"])
                             ELSE IF c = "ASOCSEC" THEN Div(raw[y][c], raw[y]["APOPSNR"])
                             ELSE raw[y][c]]]
         IN  [columns |-> blowup_factors.columns,
              index |-> blowup_factors.index,
              \* 1.0 + pct_change(): the ratio to the previous row, NaN in the first
              val |-> [y \in blowup_factors.index |->
                         [c \in blowup_factors.columns |->
                            IF y = first THEN NaN
                            ELSE Div(scaled[y][c],
                                     scaled[PreviousRow(blowup_factors.index, y)][c])]]]

_read_weights(weights) ==
    IF weights = NoTable THEN EmptyWT ELSE weights

\* DataFrame.empty
BFEmpty(bf) == bf.index = {} \/ bf.columns = {}
WTEmpty(wt) == Len(wt.rows) = 0 \/ wt.columns = {}

RescaleByFrac(wt, index, n) ==
    [columns |-> wt.columns,
     rows |-> [i \in 1..n |->
                 [c \in wt.columns |-> Mul(wt.rows[index[i] + 1][c], Frac(n, Len(wt.rows)))]]]

\* WT.iloc[index] / frac with frac = float(dim) / len(WT)
Rescale(wt, index, n) ==
    [columns |-> wt.columns,
     rows |-> [i \in 1..n |->
                 [c \in wt.columns |-> Div(wt.rows[index[i] + 1][c], Frac(n, Len(wt.rows)))]]]

\* iloc raises IndexError for a position outside the table
IlocInBounds(wt, index) == \A i \in 1..Len(index) : index[i] < Len(wt.rows)

SampleWeightsUnscaled(wt, year) == [i \in 1..Len(wt.rows) |-> wt.rows[i][WTColName(year)]]

\* WT[wt_colname] * 0.01
SampleWeights(wt, year) ==
    [i \in 1..Len(wt.rows) |-> Mul(wt.rows[i][WTColName(year)], Frac(1, 100))]

(***************************************************************************)
(* _blowup: the extrapolation engine.                                      *)
(***************************************************************************)
\* the 16 factors _blowup reads from the factor table
BlowupFactors == {"AWAGE", "AINTS", "ADIVS", "ATXPY", "ASCHCI", "ASCHCL",
                  "ACGNS", "ASCHEI", "ASCHEL", "ASCHF", "AUCOMP", "ASOCSEC",
                  "ACPIM", "AGDPN", "ABOOK", "AIPD"}

\* the assignments of _blowup in source order, each <<column, factor applied
\* where the value is >= 0, factor applied elsewhere>>; "x *= A" multiplies
\* by A on both sides
BlowupStatements == <<
    <<"e00200", "AWAGE", "AWAGE">>, <<"e00200p", "AWAGE", "AWAGE">>,
    <<"e00200s", "AWAGE", "AWAGE">>, <<"e00300", "AINTS", "AINTS">>,
    <<"e00400", "AINTS", "AINTS">>, <<"e00600", "ADIVS", "ADIVS">>,
    <<"e00650", "ADIVS", "ADIVS">>, <<"e00700", "ATXPY", "ATXPY">>,
    <<"e00800", "ATXPY", "ATXPY">>, <<"e00900", "ASCHCI", "ASCHCL">>,
    <<"e00900s", "ASCHCI", "ASCHCL">>, <<"e00900p", "ASCHCI", "ASCHCL">>,
    <<"e01100", "ACGNS", "ACGNS">>, <<"e01200", "ACGNS", "ACGNS">>,
    <<"e01400", "ATXPY", "ATXPY">>, <<"e01500", "ATXPY", "ATXPY">>,
    <<"e01700", "ATXPY", "ATXPY">>, <<"e02000", "ASCHEI", "ASCHEL">>,
    <<"e02100", "ASCHF", "ASCHF">>, <<"e02100p", "ASCHF", "ASCHF">>,
    <<"e02100s", "ASCHF", "ASCHF">>, <<"e02300", "AUCOMP", "AUCOMP">>,
    <<"e02400", "ASOCSEC", "ASOCSEC">>, <<"e03150", "ATXPY", "ATXPY">>,
    <<"e03210", "ATXPY", "ATXPY">>, <<"e03220", "ATXPY", "ATXPY">>,
    <<"e03230", "ATXPY", "ATXPY">>, <<"e03270", "ACPIM", "ACPIM">>,
    <<"e03240", "AGDPN", "AGDPN">>, <<"e03290", "ACPIM", "ACPIM">>,
    <<"e03300", "ATXPY", "ATXPY">>, <<"e03400", "ATXPY", "ATXPY">>,
    <<"e03500", "ATXPY", "ATXPY">>, <<"e07240", "ATXPY", "ATXPY">>,
    <<"e07260", "ATXPY", "ATXPY">>, <<"e07300", "ABOOK", "ABOOK">>,
    <<"e07400", "ABOOK", "ABOOK">>, <<"p08000", "ATXPY", "ATXPY">>,
    <<"e09700", "ATXPY", "ATXPY">>, <<"e09800", "ATXPY", "ATXPY">>,
    <<"e09900", "ATXPY", "ATXPY">>, <<"e11200", "ATXPY", "ATXPY">>,
    <<"e17500", "ACPIM", "ACPIM">>, <<"e18400", "ATXPY", "ATXPY">>,
    <<"e18500", "ATXPY", "ATXPY">>, <<"e19200", "AIPD", "AIPD">>,
    <<"e19800", "ATXPY", "ATXPY">>, <<"e20100", "ATXPY", "ATXPY">>,
    <<"e20400", "ATXPY", "ATXPY">>, <<"e20500", "ATXPY", "ATXPY">>,
    <<"p22250", "ACGNS", "ACGNS">>, <<"p23250", "ACGNS", "ACGNS">>,
    <<"e24515", "ACGNS", "ACGNS">>, <<"e24518", "ACGNS", "ACGNS">>,
    <<"p25470", "ASCHEI", "ASCHEI">>, <<"e26270", "ASCHEI", "ASCHEI">>,
    <<"e27200", "ASCHEI", "ASCHEI">>, <<"e07600", "ATXPY", "ATXPY">>,
    <<"e32800", "ATXPY", "ATXPY">>, <<"e58990", "ATXPY", "ATXPY">>,
    <<"e62900", "ATXPY", "ATXPY">>, <<"e87530", "ATXPY", "ATXPY">>,
    <<"p87521", "ATXPY", "ATXPY">>, <<"cmbtp", "ATXPY", "ATXPY">>>>

\* the columns _blowup assigns
BlowupColumns == {BlowupStatements[k][1] : k \in 1..Len(BlowupStatements)}

\* self.BF.<factor>[year] raises when the column or the row is missing
CanBlowup(bf, year) == BlowupFactors \subseteq bf.columns /\ year \in bf.index

\* np.where(x >= 0, x * gain, x * loss) for one element
BlownUp(x, gain, loss) == IF GeZero(x) THEN Mul(x, gain) ELSE Mul(x, loss)

\* the assignments to column v, in source order
StatementsFor ==
    [v \in BlowupColumns |-> SelectSeq(BlowupStatements, LAMBDA st : st[1] = v)]

\* one element after the assignments sts[k..] with the factors of row
RECURSIVE Assigned(_, _, _, _)
Assigned(x, sts, row, k) ==
    IF k > Len(sts) THEN x
    ELSE Assigned(BlownUp(x, row[sts[k][2]], row[sts[k][3]]), sts, row, k + 1)

\* the columns after the assignments of _blowup with the factors of row
ApplyStatements(c, row) ==
    [v \in DOMAIN c |->
        IF v \in BlowupColumns
        THEN [i \in 1..Len(c[v]) |-> Assigned(c[v][i], StatementsFor[v], row, 1)]
        ELSE c[v]]

\* a _blowup that applies the interest factor to e00300 a second time
_blowupInterestTwice(c, bf, year) ==
    [ApplyStatements(c, bf.val[year]) EXCEPT
        !["e00300"] = VecScale(@, bf.val[year]["AINTS"])]

\* a _blowup that also writes the year into the filing-year field
_blowupWithYear(c, bf, year) ==
    [ApplyStatements(c, bf.val[year]) EXCEPT
        !["FLPDYR"] = [i \in 1..Len(@) |-> Rat(year)]]

\* the columns after _blowup(year), for a year CanBlowup accepts
_blowup(c, bf, year) == ApplyStatements(c, bf.val[year])

\* the factor values _extrapolate_2009_puf writes into the 2009 row
Bootstrap2009 ==
    [AGDPN |-> Rat(1), ATXPY |-> Rat(1), AWAGE |-> Frac(10053, 10000),
     ASCHCI |-> Frac(10041, 10000), ASCHCL |-> Frac(11629, 10000),
     ASCHF |-> Rat(1), AINTS |-> Frac(10357, 10000),
     ADIVS |-> Frac(10606, 10000), ASCHEI |-> Frac(11089, 10000),
     ASCHEL |-> Frac(12953, 10000), ACGNS |-> Frac(11781, 10000),
     ABOOK |-> Rat(1), ARETS |-> Frac(10026, 10000), APOPN |-> Rat(1),
     ACPIU |-> Rat(1), APOPDEP |-> Rat(1), ASOCSEC |-> Frac(9941, 10000),
     ACPIM |-> Rat(1), AUCOMP |-> Frac(10034, 10000), APOPSNR |-> Rat(1),
     AIPD |-> Rat(1)]

_extrapolate_2009_pufSkipped(bf) == bf

\* the factor table after the assignments of _extrapolate_2009_puf
_extrapolate_2009_puf(bf) ==
    [bf EXCEPT !.val[2009] = [c \in bf.columns |->
                                IF c \in DOMAIN Bootstrap2009 THEN Bootstrap2009[c]
                                ELSE bf.val[2009][c]]]

(***************************************************************************)
(* The state: the constructor's arguments, the fields of the Records       *)
(* object, and the calls made so far.                                      *)
(***************************************************************************)
VARIABLES
    args,          \* the arguments given to Records(...)
    pc,            \* "new" before construction, then "ok" or "failed"
    raised,        \* the exception raised by the last call, "" when it returned
    last,          \* the last call on the object: its name, its argument and
                   \* the name of the call before it
    nops,          \* the number of calls made on the object
    dim, index,    \* self.dim, self.index
    READ_VARS, IGNORED_VARS, ZEROED_VARS,  \* the column classes of _read_data
    cols,          \* the column arrays, by attribute name
    BF, WT,        \* the factor table and the weights table
    current_year,  \* self._current_year
    base, run,     \* year and extrapolated columns before the current run of
                   \* increment_year calls that returned, and the run's length
    incs           \* the number of increment_year calls since the construction
                   \* or the last set_current_year call

vars == <<args, pc, raised, last, nops, dim, index, READ_VARS, IGNORED_VARS,
          ZEROED_VARS, cols, BF, WT, current_year, base, run, incs>>

\* the extrapolated columns of c, as remembered in base
Extrapolated(c) == [v \in BlowupColumns \cap DOMAIN c |-> c[v]]

\* the fields before __init__ has assigned them
NoObject ==
    [raised |-> "", dim |-> 0, index |-> << >>, READ_VARS |-> {},
     IGNORED_VARS |-> {}, ZEROED_VARS |-> {}, cols |-> << >>,
     BF |-> EmptyBF, WT |-> EmptyWT, current_year |-> 0]

\* The statements of __init__ in turn.  Each takes the fields assigned so far
\* (raised names the exception once one is raised, and the later statements
\* are then skipped) and gives the fields after it.

\* self._read_data(data, exact_calculations)
Loaded(rd) ==
    [NoObject EXCEPT !.raised = rd.raised, !.dim = rd.dim, !.index = rd.index,
                     !.READ_VARS = rd.READ_VARS, !.IGNORED_VARS = rd.IGNORED_VARS,
                     !.ZEROED_VARS = rd.ZEROED_VARS, !.cols = rd.cols]

\* the three split-earnings checks and the dividends check
Validated(s) ==
    IF s.raised # "" THEN s
    ELSE IF SplitEarningsError(s.cols) # ""
         THEN [s EXCEPT !.raised = SplitEarningsError(s.cols)]
    ELSE IF ~DividendsOK(s.cols) THEN [s EXCEPT !.raised = "e00600 >= e00650"]
    ELSE s

\* self._read_blowup(blowup_factors); self._read_weights(weights)
WithTables(s, blowup_factors, weights) ==
    IF s.raised # "" THEN s
    ELSE [s EXCEPT !.BF = _read_blowup(blowup_factors),
                   !.WT = _read_weights(weights)]

\* weights must be same size as tax record data
Resized(s) ==
    IF s.raised # "" \/ WTEmpty(s.WT) \/ s.dim = Len(s.WT.rows) THEN s
    ELSE IF ~IlocInBounds(s.WT, s.index) THEN [s EXCEPT !.raised = "IndexError"]
    ELSE [s EXCEPT !.WT = Rescale(s.WT, s.index, s.dim)]

\* specify current_year and FLPDYR values
WithYear(s, start_year) ==
    IF s.raised # "" THEN s
    ELSE IF ~start_year.int THEN [s EXCEPT !.raised = "start_year is not an integer"]
    ELSE [s EXCEPT !.current_year = start_year.value,
                   !.cols["FLPDYR"] = Filled(s.dim, Rat(start_year.value))]

\* self._blowup(2009), the last statement of _extrapolate_2009_puf
BlownUp2009(s) ==
    IF ~CanBlowup(s.BF, 2009) THEN [s EXCEPT !.raised = "KeyError"]
    ELSE [s EXCEPT !.cols = _blowup(s.cols, s.BF, 2009)]

\* consider applying initial-year blowup factors
Bootstrapped(s) ==
    IF s.raised # "" \/ BFEmpty(s.BF) \/ s.current_year # PUFCSV_YEAR THEN s
    ELSE BlownUp2009([s EXCEPT !.BF = _extrapolate_2009_puf(s.BF)])

\* the columns after "if wt_colname in self.WT.columns: self.s006 = ..."
Reweighted(c, wt, year) ==
    IF WTColName(year) \in wt.columns
    THEN [c EXCEPT !["s006"] = SampleWeights(wt, year)]
    ELSE c

\* construct sample weights for current_year
Weighted(s) ==
    IF s.raised # "" THEN s
    ELSE [s EXCEPT !.cols = Reweighted(s.cols, s.WT, s.current_year)]

\* Records.__init__: the fields it has assigned when it returns or raises
__init__(data, exact_calculations, blowup_factors, weights, start_year) ==
    Weighted(Bootstrapped(WithYear(Resized(WithTables(
        Validated(Loaded(_read_data(data, exact_calculations))),
        blowup_factors, weights)), start_year)))

\* The data argument is described by its column names, the kinds of its rows
\* and the shift of its row labels; the factor table by its first and last
\* year; the weights table by its number of rows.
Data(a) == DataFrame(a.columns, a.kinds, a.shift)

Factors(a) ==
    IF a.blowup_factors = NoTable THEN NoTable
    ELSE IF "gap" \in DOMAIN a.blowup_factors
         THEN WithoutRow(RawFactors(a.blowup_factors.first, a.blowup_factors.last),
                         a.blowup_factors.gap)
    ELSE RawFactors(a.blowup_factors.first, a.blowup_factors.last)

Weights(a) ==
    IF a.weights = NoTable THEN NoTable ELSE RawWeights(a.weights.nrows)

AllOK(kinds) == \A i \in 1..Len(kinds) : kinds[i] \in {RowOK1, RowOK2}

DefaultYear == [int |-> TRUE, value |-> PUFCSV_YEAR]

\* Data that passes the loader and the consistency checks is combined with
\* every factor table, weights table and start year; data that fails them is
\* given the default of the others, which __init__ does not reach.
Arguments ==
    {[columns |-> USABLE_READ_VARS, kinds |-> kinds, shift |-> w[2],
      exact_calculations |-> FALSE, blowup_factors |-> bf,
      weights |-> IF w[1] = 0 THEN NoTable ELSE [nrows |-> Len(kinds) + w[1] - 1],
      start_year |-> sy] :
        kinds \in {k \in RowSeqs(RowKinds, MaxDim) : AllOK(k)},
        bf \in BlowupChoices, w \in WeightChoices, sy \in StartYearChoices}
    \cup
    {[columns |-> columns, kinds |-> kinds, shift |-> 0,
      exact_calculations |-> FALSE, blowup_factors |-> NoTable,
      weights |-> NoTable, start_year |-> DefaultYear] :
        columns \in ColumnChoices, kinds \in RowSeqs(RowKinds, MaxDim)}

\* source columns the loader is tried on besides RECID and MARS: inputs,
\* names of calculated variables and a name the registry does not know
LoadColumns == {"e00200", "e00200p", "e00200s", "e00650", "FLPDYR", "s006",
                "c00100", "_num", "junk"}

\* the arguments of SpecLoad: every set of source columns, both exact flags
LoadArguments ==
    {[columns |-> (MUST_READ_VARS \ drop) \cup extra, kinds |-> <<RowOK1, RowOK2>>,
      shift |-> 0, exact_calculations |-> exact, blowup_factors |-> NoTable,
      weights |-> NoTable, start_year |-> DefaultYear] :
        drop \in {{}, {"MARS"}}, extra \in SUBSET LoadColumns, exact \in BOOLEAN}

Unbuilt ==
    /\ pc = "new"
    /\ raised = ""
    /\ last = [op |-> "", arg |-> 0, prev |-> ""]
    /\ nops = 0
    /\ dim = 0
    /\ index = << >>
    /\ READ_VARS = {}
    /\ IGNORED_VARS = {}
    /\ ZEROED_VARS = {}
    /\ cols = << >>
    /\ BF = EmptyBF
    /\ WT = EmptyWT
    /\ current_year = 0
    /\ base = [year |-> 0, cols |-> << >>]
    /\ run = 0
    /\ incs = 0

Init == args \in Arguments /\ Unbuilt

InitLoad == args \in LoadArguments /\ Unbuilt

\* recs = Records(data, exact_calculations, blowup_factors, weights, start_year)
Construct ==
    /\ pc = "new"
    /\ LET self == __init__(Data(args), args.exact_calculations,
                            Factors(args), Weights(args), args.start_year)
       IN  /\ pc' = IF self.raised = "" THEN "ok" ELSE "failed"
           /\ raised' = self.raised
           /\ dim' = self.dim
           /\ index' = self.index
           /\ READ_VARS' = self.READ_VARS
           /\ IGNORED_VARS' = self.IGNORED_VARS
           /\ ZEROED_VARS' = self.ZEROED_VARS
           /\ cols' = self.cols
           /\ BF' = self.BF
           /\ WT' = self.WT
           /\ current_year' = self.current_year
           /\ base' = [year |-> self.current_year, cols |-> Extrapolated(self.cols)]
    /\ run' = 0
    /\ incs' = 0
    /\ UNCHANGED <<args, last, nops>>

\* an increment_year that puts the year back when _blowup raises
increment_yearRollingBack ==
    /\ pc = "ok"
    /\ nops < MaxOps
    /\ current_year <= MaxYear
    /\ current_year' = IF CanBlowup(BF, current_year + 1)
                       THEN current_year + 1 ELSE current_year
    /\ IF CanBlowup(BF, current_year + 1)
       THEN /\ cols' = Reweighted(_blowup(cols, BF, current_year + 1), WT,
                                  current_year + 1)
            /\ raised' = ""
            /\ run' = run + 1
            /\ base' = base
       ELSE /\ cols' = cols
            /\ raised' = IF BlowupFactors \subseteq BF.columns
                         THEN "KeyError" ELSE "AttributeError"
            /\ run' = 0
            /\ base' = [year |-> current_year + 1, cols |-> Extrapolated(cols)]
    /\ last' = [op |-> "increment_year", arg |-> 0, prev |-> last.op]
    /\ nops' = nops + 1
    /\ incs' = incs + 1
    /\ UNCHANGED <<args, pc, dim, index, READ_VARS, IGNORED_VARS, ZEROED_VARS,
                   BF, WT>>

\* recs.increment_year()
increment_year ==
    /\ pc = "ok"
    /\ nops < MaxOps
    /\ current_year <= MaxYear
    /\ current_year' = current_year + 1
    /\ IF CanBlowup(BF, current_year + 1)
       THEN /\ cols' = Reweighted(_blowup(cols, BF, current_year + 1), WT,
                                  current_year + 1)
            /\ raised' = ""
            /\ run' = run + 1
            /\ base' = base
       ELSE /\ cols' = cols
            /\ raised' = IF BlowupFactors \subseteq BF.columns
                         THEN "KeyError" ELSE "AttributeError"
            /\ run' = 0
            /\ base' = [year |-> current_year + 1, cols |-> Extrapolated(cols)]
    /\ last' = [op |-> "increment_year", arg |-> 0, prev |-> last.op]
    /\ nops' = nops + 1
    /\ incs' = incs + 1
    /\ UNCHANGED <<args, pc, dim, index, READ_VARS, IGNORED_VARS, ZEROED_VARS,
                   BF, WT>>

\* the years given to set_current_year: the data year and a year beyond
\* both tables
SetYearChoices == {PUFCSV_YEAR, MaxYear + 1}

\* a set_current_year that also reconstructs the sample weights
set_current_yearReweighting(new_current_year) ==
    /\ pc = "ok"
    /\ nops < MaxOps
    /\ current_year' = new_current_year
    /\ cols' = Reweighted([cols EXCEPT !["FLPDYR"] = Filled(dim, Rat(new_current_year))],
                          WT, new_current_year)
    /\ raised' = ""
    /\ last' = [op |-> "set_current_year", arg |-> new_current_year, prev |-> last.op]
    /\ nops' = nops + 1
    /\ base' = [year |-> new_current_year, cols |-> Extrapolated(cols')]
    /\ run' = 0
    /\ incs' = 0
    /\ UNCHANGED <<args, pc, dim, index, READ_VARS, IGNORED_VARS, ZEROED_VARS,
                   BF, WT>>

\* recs.set_current_year(new_current_year)
set_current_year(new_current_year) ==
    /\ pc = "ok"
    /\ nops < MaxOps
    /\ current_year' = new_current_year
    /\ cols' = [cols EXCEPT !["FLPDYR"] = Filled(dim, Rat(new_current_year))]
    /\ raised' = ""
    /\ last' = [op |-> "set_current_year", arg |-> new_current_year, prev |-> last.op]
    /\ nops' = nops + 1
    /\ base' = [year |-> new_current_year, cols |-> Extrapolated(cols')]
    /\ run' = 0
    /\ incs' = 0
    /\ UNCHANGED <<args, pc, dim, index, READ_VARS, IGNORED_VARS, ZEROED_VARS,
                   BF, WT>>

\* zeroing every calculated variable, the integer ones and the casualty
\* threshold included
ZeroedOutAllCalculated == CALCULATED_VARS

\* the columns zero_out_changing_calculated_vars fills with 0.
ZeroedOut == CHANGING_CALCULATED_VARS

\* recs.zero_out_changing_calculated_vars()
zero_out_changing_calculated_vars ==
    /\ pc = "ok"
    /\ nops < MaxOps
    /\ cols' = [v \in DOMAIN cols |->
                  IF v \in ZeroedOut THEN Filled(Len(cols[v]), Zero) ELSE cols[v]]
    /\ raised' = ""
    /\ last' = [op |-> "zero_out_changing_calculated_vars", arg |-> 0, prev |-> last.op]
    /\ nops' = nops + 1
    /\ base' = [year |-> current_year, cols |-> Extrapolated(cols')]
    /\ run' = 0
    /\ incs' = incs
    /\ UNCHANGED <<args, pc, dim, index, READ_VARS, IGNORED_VARS, ZEROED_VARS,
                   BF, WT, current_year>>

\* the calculated columns the tax functions of the model write, and the value
CalculatedSample == {"c00100", "_iitax", "c07240"}
CalculatedValue == Frac(7, 2)

\* the tax-calculation functions, which read the input columns and write
\* calculated columns
calculate ==
    /\ pc = "ok"
    /\ nops < MaxOps
    /\ \A v \in CalculatedSample : cols[v] # Filled(dim, CalculatedValue)
    /\ cols' = [v \in DOMAIN cols |->
                  IF v \in CalculatedSample THEN Filled(dim, CalculatedValue)
                  ELSE cols[v]]
    /\ raised' = ""
    /\ last' = [op |-> "calculate", arg |-> 0, prev |-> last.op]
    /\ nops' = nops + 1
    /\ base' = [year |-> current_year, cols |-> Extrapolated(cols')]
    /\ run' = 0
    /\ incs' = incs
    /\ UNCHANGED <<args, pc, dim, index, READ_VARS, IGNORED_VARS, ZEROED_VARS,
                   BF, WT, current_year>>

Next ==
    \/ Construct
    \/ increment_year
    \/ \E y \in SetYearChoices : set_current_year(y)
    \/ zero_out_changing_calculated_vars
    \/ calculate

Spec == Init /\ [][Next]_vars

\* construction alone, on every set of source columns
NextLoad == Construct

SpecLoad == InitLoad /\ [][NextLoad]_vars

(***************************************************************************)
(* Extrapolation by increment_year.                                        *)
(***************************************************************************)
\* the value x of one record after the factors of the years y+1 .. y+n, the
\* factor of each year chosen by the sign of the value reached at that year
RECURSIVE Compounded(_, _, _, _, _)
Compounded(x, gain, loss, y, n) ==
    IF n = 0 THEN x
    ELSE IF GeZero(Compounded(x, gain, loss, y, n - 1))
         THEN Mul(Compounded(x, gain, loss, y, n - 1), BF.val[y + n][gain])
         ELSE Mul(Compounded(x, gain, loss, y, n - 1), BF.val[y + n][loss])

\* the gain and loss factor of each extrapolated column
GainOf(v) == IF v \in {"e00900", "e00900p", "e00900s"} THEN "ASCHCI"
             ELSE IF v = "e02000" THEN "ASCHEI"
             ELSE StatementsFor[v][1][2]

LossOf(v) == IF v \in {"e00900", "e00900p", "e00900s"} THEN "ASCHCL"
             ELSE IF v = "e02000" THEN "ASCHEL"
             ELSE GainOf(v)

\* C1: after n >= 1 consecutive increment_year calls that returned, made on
\* a sample at year Y, current_year is Y + n and every extrapolated column
\* of every record is its value before the first call multiplied by the
\* factor of year Y+1, then Y+2, ..., then Y+n, each applied once; e00900,
\* e00900p, e00900s and e02000 take at each step the gain factor
\* (ASCHCI, ASCHEI) where the record's value is >= 0 and the loss factor
\* (ASCHCL, ASCHEL) where it is negative.
C1_Compounding ==
    (pc = "ok" /\ run >= 1) =>
        /\ current_year = base.year + run
        /\ \A y \in (base.year + 1)..(base.year + run) : y \in BF.index
        /\ \A v \in BlowupColumns : \A i \in 1..dim :
              cols[v][i] = Compounded(base.cols[v][i], GainOf(v), LossOf(v),
                                      base.year, run)

\* two increments in a row over records of both signs, with a gain factor
\* that differs from the loss factor
C1_Witness ==
    /\ pc = "ok"
    /\ run = 2
    /\ BF.val[current_year]["ASCHCI"] # BF.val[current_year]["ASCHCL"]
    /\ \E i, j \in 1..dim :
          /\ GeZero(base.cols["e00900"][i])
          /\ base.cols["e00900"][i] # Zero
          /\ ~GeZero(base.cols["e00900"][j])
          /\ ~IsNaN(cols["e00900"][j])
          /\ cols["e00900"][i] # base.cols["e00900"][i]
          /\ cols["e00200"][i] # base.cols["e00200"][i]

(***************************************************************************)
(* The base-year bootstrap.                                                *)
(***************************************************************************)
\* the value the input data gives record i in column name (0 for a column
\* the data does not have, which the loader zeroes)
Input(name, i) ==
    IF name \in args.columns THEN SourceValue(args.kinds[i], name, i) ELSE Zero

\* a sample built with base year 2009 and a factor table, then given exactly
\* one increment_year call, which returned
OneIncrementFrom2009 ==
    /\ pc = "ok"
    /\ args.start_year = DefaultYear
    /\ args.blowup_factors # NoTable
    /\ nops = 1
    /\ last.op = "increment_year"
    /\ raised = ""

\* C2 (amended): for a sample built with base year 2009 and a non-empty
\* factor table, after exactly one increment_year the wage column e00200 of
\* every record is the input wage multiplied by 1.0053, the AWAGE value the
\* bootstrap of __init__ applies, and then by AWAGE(2010).
C2_BootstrappedWage ==
    OneIncrementFrom2009 =>
        \A i \in 1..dim :
            cols["e00200"][i] =
                Mul(Mul(Input("e00200", i), Frac(10053, 10000)),
                    BF.val[2010]["AWAGE"])

\* C2 as stated: the wage column is the input wage multiplied by AWAGE(2010)
C2_AsStated ==
    OneIncrementFrom2009 =>
        \A i \in 1..dim :
            cols["e00200"][i] = Mul(Input("e00200", i), BF.val[2010]["AWAGE"])

\* the sample of the example: an input wage of 1000, one increment to 2010
C2_Witness ==
    /\ OneIncrementFrom2009
    /\ current_year = 2010
    /\ \E i \in 1..dim :
          /\ Input("e00200", i) = Rat(1000)
          /\ ~IsNaN(cols["e00200"][i])

(***************************************************************************)
(* The consistency checks.                                                 *)
(***************************************************************************)
\* record i of the input data has total = primary + secondary within 0.001
InputSplitOK(fam, i) ==
    Le(AbsRat(Sub(Input(fam, i), Add(Input(fam \o "p", i), Input(fam \o "s", i)))),
       Frac(1, 1000))

FamilyOK(fam) == \A i \in 1..Len(args.kinds) : InputSplitOK(fam, i)

\* the first family, in the order e00200, e00900, e02100, that some record
\* of the input data violates; "" when there is none
FirstOffending ==
    IF ~FamilyOK("e00200") THEN "e00200"
    ELSE IF ~FamilyOK("e00900") THEN "e00900"
    ELSE IF ~FamilyOK("e02100") THEN "e02100"
    ELSE ""

\* C3 (amended): construction succeeds only if every record has total =
\* primary + secondary within 0.001 in each of e00200, e00900 and e02100;
\* if the data has the required RECID and MARS columns and some record
\* violates a family, construction fails with the consistency error of the
\* first offending family in the order e00200, e00900, e02100.
C3_SplitEarnings ==
    /\ pc = "ok" => FirstOffending = ""
    /\ (pc # "new" /\ FirstOffending # "" /\ MUST_READ_VARS \subseteq args.columns)
          => (pc = "failed" /\ raised = FirstOffending)

\* C3 as stated: whenever a record violates a family, construction fails
\* with the consistency error of the first offending family
C3_AsStated ==
    /\ pc = "ok" => FirstOffending = ""
    /\ (pc # "new" /\ FirstOffending # "")
          => (pc = "failed" /\ raised = FirstOffending)

\* a failed construction of data whose wages are consistent and whose
\* e00900 and e02100 families are both violated
C3_Witness ==
    /\ pc = "failed"
    /\ raised = "e00900"
    /\ FamilyOK("e00200")
    /\ ~FamilyOK("e02100")
    /\ MUST_READ_VARS \subseteq args.columns

LongerWeights ==
    /\ pc = "ok"
    /\ args.weights # NoTable
    /\ args.weights.nrows > dim

\* the sum of column c of the given weights table over the rows at the
\* positions index[1..n]
RECURSIVE SelectedSum(_, _)
SelectedSum(c, n) ==
    IF n = 0 THEN Zero
    ELSE Add(SelectedSum(c, n - 1), RawWeights(args.weights.nrows).rows[index[n] + 1][c])

\* the sum of column c of WT over its first n rows
RECURSIVE WTSum(_, _)
WTSum(c, n) == IF n = 0 THEN Zero ELSE Add(WTSum(c, n - 1), WT.rows[n][c])

\* C5 (amended): when the weights table has R rows and the sample S < R
\* rows, after construction the weights table has exactly S rows, those at
\* the positions of the sample's row index, and each column sum is R/S
\* times the sum of the given column over the selected rows.
C5_Rescaled ==
    LongerWeights =>
        /\ Len(WT.rows) = dim
        /\ \A c \in WT.columns :
              WTSum(c, dim) = Mul(Frac(args.weights.nrows, dim), SelectedSum(c, dim))

\* C5 as stated: each column sum is S/R times the sum over the selected rows
C5_AsStated ==
    LongerWeights =>
        /\ Len(WT.rows) = dim
        /\ \A c \in WT.columns :
              WTSum(c, dim) = Mul(Frac(dim, args.weights.nrows), SelectedSum(c, dim))

\* a sample of two rows labelled 1 and 2 built with three rows of weights
C5_Witness ==
    /\ LongerWeights
    /\ dim = 2
    /\ index = <<1, 2>>
    /\ nops = 0
    /\ WT.rows[1]["WT2009"] = Mul(Rat(207), Frac(3, 2))

(***************************************************************************)
(* Frame effects of the public methods.                                    *)
(***************************************************************************)
\* the step is a call of the method named op
CallOf(op) == last'.op = op /\ nops' = nops + 1

\* C6 (amended): an increment_year call from year Y that returns sets s006
\* to the weights column WT<Y+1> times 0.01 when the weights table has that
\* column, and leaves s006 as it was when it has not (an empty weights
\* table included); a call that raises leaves s006 as it was whatever the
\* weights table holds, and it raises only when the factor table lacks the
\* row of Y+1 or a factor column, never because of the weights table.
C6_Reweighting ==
    [][CallOf("increment_year") =>
          /\ raised' = "" =>
                IF WTColName(current_year + 1) \in WT.columns
                THEN cols'["s006"] =
                         [i \in 1..dim |->
                             Mul(WT.rows[i][WTColName(current_year + 1)], Frac(1, 100))]
                ELSE cols'["s006"] = cols["s006"]
          /\ raised' # "" =>
                /\ cols'["s006"] = cols["s006"]
                /\ ~(current_year + 1 \in BF.index /\ BlowupFactors \subseteq BF.columns)
      ]_vars

\* C6 as stated: every increment_year call from year Y sets s006 to
\* WT<Y+1> times 0.01 when the weights table has that column and leaves it
\* as it was otherwise
C6_AsStated ==
    [][CallOf("increment_year") =>
          IF WTColName(current_year + 1) \in WT.columns
          THEN cols'["s006"] =
                   [i \in 1..dim |->
                       Mul(WT.rows[i][WTColName(current_year + 1)], Frac(1, 100))]
          ELSE cols'["s006"] = cols["s006"]
      ]_vars

\* two increments that returned, 2009 to 2011: the first took the weights
\* of 2010, the second found no column for 2011 and kept them
C6_Witness ==
    /\ pc = "ok"
    /\ last.op = "increment_year"
    /\ last.prev = "increment_year"
    /\ nops = 2
    /\ raised = ""
    /\ current_year = 2011
    /\ ~WTEmpty(WT)
    /\ WTColName(current_year) \notin WT.columns
    /\ cols["s006"] = [i \in 1..dim |-> Mul(WT.rows[i]["WT2010"], Frac(1, 100))]

\* C7: set_current_year(y) sets current_year to y and FLPDYR of every record
\* to y and changes nothing else: no other column (extrapolated, calculated
\* or s006) and no entry of the factor table or the weights table, for any
\* y, years without a factor row or weights column included.
C7_SetYear ==
    [][CallOf("set_current_year") =>
          /\ current_year' = last'.arg
          /\ raised' = ""
          /\ DOMAIN cols' = DOMAIN cols
          /\ cols'["FLPDYR"] = [i \in 1..dim |-> Rat(last'.arg)]
          /\ \A v \in DOMAIN cols \ {"FLPDYR"} : cols'[v] = cols[v]
          /\ BF' = BF
          /\ WT' = WT
          /\ dim' = dim
          /\ index' = index
      ]_vars

\* set_current_year back to 2009 after an increment took the weights of
\* 2010, on a sample holding both tables: s006 keeps the weights of 2010
C7_Witness ==
    /\ pc = "ok"
    /\ last.op = "set_current_year"
    /\ last.arg = 2009
    /\ last.prev = "increment_year"
    /\ nops = 2
    /\ current_year = 2009
    /\ cols["FLPDYR"] = [i \in 1..dim |-> Rat(2009)]
    /\ ~BFEmpty(BF)
    /\ "WT2009" \in WT.columns
    /\ cols["s006"] = [i \in 1..dim |-> Mul(WT.rows[i]["WT2010"], Frac(1, 100))]
    /\ \E i \in 1..dim : cols["e00200"][i] # Input("e00200", i)

\* C8: zero_out_changing_calculated_vars sets every column of
\* CHANGING_CALCULATED_VARS to 0 for every record and leaves unchanged
\* every read column, s006, the integer columns _num, _sep and _exact, the
\* column ID_Casualty_frt_in_pufcsv_year, and current_year.
C8_ZeroOut ==
    [][CallOf("zero_out_changing_calculated_vars") =>
          /\ \A v \in CHANGING_CALCULATED_VARS : cols'[v] = [i \in 1..dim |-> Zero]
          /\ \A v \in USABLE_READ_VARS \cup
                      {"s006", "_num", "_sep", "_exact",
                       "ID_Casualty_frt_in_pufcsv_year"} : cols'[v] = cols[v]
          /\ current_year' = current_year
          /\ raised' = ""
      ]_vars

\* zeroing after the tax functions have written calculated columns, on a
\* sample whose bookkeeping columns are not zero
C8_Witness ==
    /\ pc = "ok"
    /\ last.op = "zero_out_changing_calculated_vars"
    /\ last.prev = "calculate"
    /\ cols["c00100"] = [i \in 1..dim |-> Zero]
    /\ cols["_iitax"] = [i \in 1..dim |-> Zero]
    /\ \E i \in 1..dim : cols["_sep"][i] = Rat(2) /\ cols["_num"][i] = Rat(1)
    /\ cols["ID_Casualty_frt_in_pufcsv_year"] = [i \in 1..dim |-> Frac(1, 10)]

(***************************************************************************)
(* The cross-field identities under extrapolation.                         *)
(***************************************************************************)
\* record i has total = primary + secondary in family fam, within the
\* tolerance of the checks of __init__
SplitHolds(fam, i) ==
    Le(AbsRat(Sub(cols[fam][i], Add(cols[fam \o "p"][i], cols[fam \o "s"][i]))),
       Frac(1, 1000))

\* C9: in every state reached from a constructed sample by the bootstrap
\* and increment_year calls alone, every record has e00200 = e00200p +
\* e00200s, e00900 = e00900p + e00900s, e02100 = e02100p + e02100s and
\* e00600 >= e00650 (each as __init__ checks it, within 0.001).
C9_IdentitiesPreserved ==
    (pc = "ok" /\ nops = run) =>
        \A i \in 1..dim :
            /\ SplitHolds("e00200", i)
            /\ SplitHolds("e00900", i)
            /\ SplitHolds("e02100", i)
            /\ Le(Sub(cols["e00650"][i], cols["e00600"][i]), Frac(1, 1000))

(***************************************************************************)
(* The column classes of the loader.                                       *)
(***************************************************************************)
\* the load has classified source columns that contain RECID and MARS
LoadedRequired == pc # "new" /\ {"RECID", "MARS"} \subseteq args.columns

\* every registry name is a column of length dim, read or zeroed, not both
RegistryLoaded ==
    \A v \in USABLE_READ_VARS \cup CALCULATED_VARS :
        /\ v \in DOMAIN cols
        /\ Len(cols[v]) = dim
        /\ (v \in READ_VARS) # (v \in ZEROED_VARS)

\* C10 (amended): for source columns that contain RECID and MARS, no name
\* is both read and zeroed or both read and ignored, the names both ignored
\* and zeroed are exactly the source columns named in CALCULATED_VARS, and
\* every name of USABLE_READ_VARS or CALCULATED_VARS is afterwards a column
\* of length dim that is either read or zeroed, never both.
C10_Classes ==
    LoadedRequired =>
        /\ READ_VARS \cap ZEROED_VARS = {}
        /\ READ_VARS \cap IGNORED_VARS = {}
        /\ IGNORED_VARS \cap ZEROED_VARS = args.columns \cap CALCULATED_VARS
        /\ READ_VARS \cup IGNORED_VARS = args.columns
        /\ RegistryLoaded

\* C10 as stated: the read, zeroed and ignored sets are pairwise disjoint
C10_AsStated ==
    LoadedRequired =>
        /\ READ_VARS \cap ZEROED_VARS = {}
        /\ READ_VARS \cap IGNORED_VARS = {}
        /\ IGNORED_VARS \cap ZEROED_VARS = {}
        /\ RegistryLoaded

\* a sample built from source columns of all kinds: read, unknown, and
\* named like a calculated variable, with a usable column left out
C10_Witness ==
    /\ pc = "ok"
    /\ "e00200" \in READ_VARS
    /\ "junk" \in IGNORED_VARS
    /\ "c00100" \in IGNORED_VARS \cap ZEROED_VARS
    /\ "e00650" \in ZEROED_VARS
    /\ cols["e00200"] = <<Rat(1000), Rat(1000)>>
    /\ cols["c00100"] = <<Zero, Zero>>

(***************************************************************************)
(* The filing-year field.                                                  *)
(***************************************************************************)
\* C11: increment_year never writes FLPDYR: after any sequence of calls
\* FLPDYR of every record is the year given at construction or by the most
\* recent set_current_year, that is current_year - k with k the number of
\* increment_year calls (those that raised included) made since then; so
\* FLPDYR equals current_year only when k = 0.
C11_FilingYear ==
    pc = "ok" =>
        /\ \A i \in 1..dim : cols["FLPDYR"][i] = Rat(current_year - incs)
        /\ nops = 0 => cols["FLPDYR"] = [i \in 1..dim |-> Rat(args.start_year.value)]
        /\ last.op = "set_current_year" =>
              cols["FLPDYR"] = [i \in 1..dim |-> Rat(last.arg)]
        /\ (\A i \in 1..dim : cols["FLPDYR"][i] = Rat(current_year)) => incs = 0

\* a sample built at 2008, set to 2009 and incremented twice over a factor
\* table without a row for 2010: the first increment raised, the second
\* returned, and FLPDYR is still 2009 at year 2011
C11_Witness ==
    /\ pc = "ok"
    /\ args.start_year.value = 2008
    /\ last.op = "increment_year"
    /\ last.prev = "increment_year"
    /\ nops = 3
    /\ incs = 2
    /\ raised = ""
    /\ 2010 \notin BF.index
    /\ current_year = 2011
    /\ cols["FLPDYR"] = [i \in 1..dim |-> Rat(2009)]

(***************************************************************************)
(* increment_year calls that raise.                                        *)
(***************************************************************************)
\* the factor table has no row for year y or lacks a factor column
NoFactorsFor(y) == y \notin BF.index \/ ~(BlowupFactors \subseteq BF.columns)

\* C12: an increment_year call at year Y that finds no factor row (or no
\* factor column) for Y+1 raises and leaves every column (the monetary
\* columns, FLPDYR and s006 among them) and both tables as they were, but
\* current_year is Y+1 afterwards; an increment_year call that follows it
\* and returns therefore applies the factors of year Y+2, and those of
\* Y+1, which the table does not have, are never applied.
C12_FailedIncrement ==
    [][CallOf("increment_year") =>
          /\ NoFactorsFor(current_year + 1) =>
                /\ raised' # ""
                /\ cols' = cols
                /\ BF' = BF
                /\ WT' = WT
                /\ current_year' = current_year + 1
          /\ (last.op = "increment_year" /\ raised # "" /\ raised' = "") =>
                /\ NoFactorsFor(current_year)
                /\ current_year' = current_year + 1
                /\ \A v \in BlowupColumns : \A i \in 1..dim :
                      cols'[v][i] = Compounded(cols[v][i], GainOf(v), LossOf(v),
                                               current_year, 1)
      ]_vars

\* a sample built at 2009 over a factor table without a row for 2010 and
\* incremented twice: the first call raised and left the year at 2010, the
\* second returned at 2011 with the wages multiplied by AWAGE(2011)
C12_Witness ==
    /\ pc = "ok"
    /\ args.start_year = DefaultYear
    /\ nops = 2
    /\ last.op = "increment_year"
    /\ last.prev = "increment_year"
    /\ raised = ""
    /\ run = 1
    /\ base.year = 2010
    /\ 2010 \notin BF.index
    /\ current_year = 2011
    /\ cols["FLPDYR"] = [i \in 1..dim |-> Rat(2009)]
    /\ \E i \in 1..dim :
          /\ ~IsNaN(cols["e00200"][i])
          /\ cols["e00200"][i] # base.cols["e00200"][i]
          /\ cols["e00200"][i] =
                Mul(Mul(Input("e00200", i), Frac(10053, 10000)), BF.val[2011]["AWAGE"])

=============================================================================
